---- MODULE Spec2Model ----
(***************************************************************************)
(* benchmark::cycleclock::Now() of src/cycleclock.h.                       *)
(*                                                                         *)
(* The build configuration (the set of defined preprocessor macros) picks  *)
(* one body of Now(); threads then call Now() while the hardware counters  *)
(* advance.  Machine words are little-endian byte sequences, so that the   *)
(* 64-bit shifts, masks, products and the unsigned-to-signed return        *)
(* conversion are computed at their real width.  A 32-bit register is a    *)
(* sequence of 4 bytes, a 64-bit variable a sequence of 8 bytes.           *)
(*                                                                         *)
(* The asm statements of one body are taken in program order.              *)
(***************************************************************************)
EXTENDS Integers, Sequences

\* ------------------------------------------------------------ bounds
\* Calls of Now() one thread makes.
MaxCalls == 2
\* Advances of the hardware counters in one behaviour.
MaxTicks == 2

Threads == {1, 2}

\* ------------------------------------------------------------ words
RECURSIVE ToBytes(_, _)
ToBytes(n, len) ==
  IF len = 0 THEN <<>> ELSE <<n % 256>> \o ToBytes(n \div 256, len - 1)

U32(b3, b2, b1, b0) == <<b0, b1, b2, b3>>
U64(hi, lo) == lo \o hi

Zero32 == ToBytes(0, 4)
Zero64 == ToBytes(0, 8)
One64 == ToBytes(1, 8)

RECURSIVE BitAnd(_, _, _)
BitAnd(a, b, n) ==
  IF n = 0 THEN 0
  ELSE (a % 2) * (b % 2) + 2 * BitAnd(a \div 2, b \div 2, n - 1)

RECURSIVE BitOr(_, _, _)
BitOr(a, b, n) ==
  IF n = 0 THEN 0
  ELSE ((a % 2) + (b % 2) - (a % 2) * (b % 2)) + 2 * BitOr(a \div 2, b \div 2, n - 1)

RECURSIVE AndFrom(_, _, _)
AndFrom(x, y, i) ==
  IF i > Len(x) THEN <<>>
  ELSE <<BitAnd(x[i], y[i], 8)>> \o AndFrom(x, y, i + 1)

RECURSIVE OrFrom(_, _, _)
OrFrom(x, y, i) ==
  IF i > Len(x) THEN <<>>
  ELSE <<BitOr(x[i], y[i], 8)>> \o OrFrom(x, y, i + 1)

RECURSIVE NotFrom(_, _)
NotFrom(x, i) ==
  IF i > Len(x) THEN <<>> ELSE <<255 - x[i]>> \o NotFrom(x, i + 1)

\* x & y, x | y and ~x on words of the same width
And(x, y) == AndFrom(x, y, 1)
Or(x, y) == OrFrom(x, y, 1)
Not(x) == NotFrom(x, 1)

RECURSIVE AddC(_, _, _, _)
AddC(x, y, i, c) ==
  IF i > Len(x) THEN <<>>
  ELSE LET s == x[i] + y[i] + c
       IN <<s % 256>> \o AddC(x, y, i + 1, s \div 256)

\* x + y modulo 2^(8 * Len(x))
Add(x, y) == AddC(x, y, 1, 0)

RECURSIVE MulC(_, _, _, _)
MulC(x, k, i, c) ==
  IF i > Len(x) THEN <<>>
  ELSE LET p == x[i] * k + c
       IN <<p % 256>> \o MulC(x, k, i + 1, p \div 256)

\* x * k modulo 2^(8 * Len(x)), k a small constant
Mul(x, k) == MulC(x, k, 1, 0)

\* -x in two's complement
Neg(x) == Add(Not(x), ToBytes(1, Len(x)))

\* x << 32 on a 64-bit word
Shl32(x) == Zero32 \o SubSeq(x, 1, 4)

\* a 32-bit unsigned value widened to 64 bits
ZeroExt(r) == r \o Zero32

Lo32(x) == SubSeq(x, 1, 4)
Hi32(x) == SubSeq(x, 5, 8)

RECURSIVE CmpU(_, _, _)
CmpU(x, y, i) ==
  IF i = 0 THEN 0
  ELSE IF x[i] < y[i] THEN -1
  ELSE IF x[i] > y[i] THEN 1
  ELSE CmpU(x, y, i - 1)

\* unsigned x <= y
LeU(x, y) == CmpU(x, y, Len(x)) <= 0

\* the sign of a word read as a signed integer
IsNeg(x) == x[Len(x)] >= 128

\* signed x <= y
LeS(x, y) == IF IsNeg(x) # IsNeg(y) THEN IsNeg(x) ELSE LeU(x, y)

\* ------------------------------------------------------------ build
Flags ==
  {"OS_MACOSX", "__i386__", "__x86_64__", "__amd64__", "__powerpc__", "__ppc__",
   "__sparc__", "__ia64__", "COMPILER_MSVC", "_M_IX86", "ARMV3", "ARMV6", "__mips__"}

\* Select with the __mips__ guard moved to the head of the chain.
SelectMipsFirst(f) ==
  IF "__mips__" \in f THEN "mips"
  ELSE IF "OS_MACOSX" \in f THEN "mach"
  ELSE IF "__i386__" \in f THEN "i386"
  ELSE IF "__x86_64__" \in f \/ "__amd64__" \in f THEN "x86_64"
  ELSE IF "__powerpc__" \in f \/ "__ppc__" \in f THEN "ppc"
  ELSE IF "__sparc__" \in f THEN "sparc"
  ELSE IF "__ia64__" \in f THEN "ia64"
  ELSE IF "COMPILER_MSVC" \in f /\ "_M_IX86" \in f THEN "msvc_asm"
  ELSE IF "COMPILER_MSVC" \in f THEN "msvc_intrin"
  ELSE IF "ARMV3" \in f THEN "arm"
  ELSE "error"

\* Select with the gettimeofday body in place of #error.
SelectGenericDefault(f) ==
  IF "OS_MACOSX" \in f THEN "mach"
  ELSE IF "__i386__" \in f THEN "i386"
  ELSE IF "__x86_64__" \in f \/ "__amd64__" \in f THEN "x86_64"
  ELSE IF "__powerpc__" \in f \/ "__ppc__" \in f THEN "ppc"
  ELSE IF "__sparc__" \in f THEN "sparc"
  ELSE IF "__ia64__" \in f THEN "ia64"
  ELSE IF "COMPILER_MSVC" \in f /\ "_M_IX86" \in f THEN "msvc_asm"
  ELSE IF "COMPILER_MSVC" \in f THEN "msvc_intrin"
  ELSE IF "ARMV3" \in f THEN "arm"
  ELSE "mips"

\* The #if / #elif chain of Now(): the body the preprocessor keeps.
Select(f) ==
  IF "OS_MACOSX" \in f THEN "mach"
  ELSE IF "__i386__" \in f THEN "i386"
  ELSE IF "__x86_64__" \in f \/ "__amd64__" \in f THEN "x86_64"
  ELSE IF "__powerpc__" \in f \/ "__ppc__" \in f THEN "ppc"
  ELSE IF "__sparc__" \in f THEN "sparc"
  ELSE IF "__ia64__" \in f THEN "ia64"
  ELSE IF "COMPILER_MSVC" \in f /\ "_M_IX86" \in f THEN "msvc_asm"
  ELSE IF "COMPILER_MSVC" \in f THEN "msvc_intrin"
  ELSE IF "ARMV3" \in f THEN "arm"
  ELSE IF "__mips__" \in f THEN "mips"
  ELSE "error"

\* The first statement of the selected body.
Entry(b, f) ==
  CASE b = "mach" -> "mach_absolute_time"
    [] b = "i386" -> "rdtsc_A"
    [] b = "x86_64" -> "rdtsc"
    [] b = "ppc" -> "mftbu0"
    [] b = "sparc" -> "rd_tick"
    [] b = "ia64" -> "ar_itc"
    [] b = "msvc_asm" -> "asm_rdtsc"
    [] b = "msvc_intrin" -> "__rdtsc"
    [] b = "arm" -> IF "ARMV6" \in f THEN "pmuseren" ELSE "gettimeofday"
    [] b = "mips" -> "gettimeofday"

\* ------------------------------------------------------------ results
UsecPerSec == 1000000
PmccntrScale == 64

\* static_cast<int64>(tbu0 == tbu1)
BoolToInt64(b) == IF b THEN One64 ELSE Zero64

\* NowX64 with the halves exchanged.
NowX64Swapped(low, high) == Or(Shl32(low), high)

\* return (high << 32) | low;  the uint64_t is returned as int64_t, same bits
NowX64(low, high) == Or(Shl32(high), low)

\* NowPowerPC without the mask on tbl.
NowPowerPCNoMask(tbu0, tbl, tbu1) == Or(Shl32(tbu1), tbl)

\* NowPowerPC with the first upper read in the result.
NowPowerPCFirstUpper(tbu0, tbl, tbu1) ==
  Or(Shl32(tbu0), And(tbl, Neg(BoolToInt64(tbu0 = tbu1))))

\* tbl &= -static_cast<int64>(tbu0 == tbu1);  return (tbu1 << 32) | tbl;
NowPowerPC(tbu0, tbl, tbu1) ==
  LET mask == Neg(BoolToInt64(tbu0 = tbu1))
      masked == And(tbl, mask)
  IN Or(Shl32(tbu1), masked)

\* return static_cast<int64>(pmccntr) * 64;
NowPmccntr(pmccntr) == Mul(ZeroExt(pmccntr), PmccntrScale)

\* return static_cast<int64_t>(tv.tv_sec) * 1000000 + tv.tv_usec;
NowTimeval(tv_sec, tv_usec) == Add(Mul(tv_sec, UsecPerSec), tv_usec)

\* pmuseren & 1
UserAccess(pmuseren) == And(pmuseren, U32(0, 0, 0, 1)) # Zero32

\* pmcntenset & 0x80000000ul
Counting(pmcntenset) == And(pmcntenset, U32(128, 0, 0, 0)) # Zero32

\* ArmAfterPmuseren with no statement behind a failed permission check.
ArmAfterPmuserenNoReturn(pmuseren) ==
  IF UserAccess(pmuseren) THEN "pmcntenset" ELSE "abort"

\* ArmAfterPmuseren reading the enable register whatever the permission bit.
ArmAfterPmuserenEager(pmuseren) == "pmcntenset"

\* if (pmuseren & 1) { read pmcntenset ... }  else fall to gettimeofday
ArmAfterPmuseren(pmuseren) ==
  IF UserAccess(pmuseren) THEN "pmcntenset" ELSE "gettimeofday"

\* ArmAfterPmcntenset testing any bit of the enable register.
ArmAfterPmcntensetAny(pmcntenset) ==
  IF pmcntenset # Zero32 THEN "pmccntr" ELSE "gettimeofday"

\* if (pmcntenset & 0x80000000ul) { read pmccntr ... }  else fall to gettimeofday
ArmAfterPmcntenset(pmcntenset) ==
  IF Counting(pmcntenset) THEN "pmccntr" ELSE "gettimeofday"

\* Slot with one frame for all threads (static variables).
SlotShared(t) == 1

\* The storage of a call's automatic variables: one frame per calling thread.
Slot(t) == t

\* ------------------------------------------------------------ state
VARIABLES
  flags,       \* the macros defined for the build
  branch,      \* the body of Now() the build kept ("unbuilt" before the build)
  TSC,         \* the 64-bit cycle counter / time base / tick register
  PMCCNTR,     \* ARM cycle counter, 32 bits
  PMUSERENR,   \* ARM user-enable register, 32 bits
  PMCNTENSET,  \* ARM count-enable register, 32 bits
  clock,       \* what gettimeofday reports: [sec, usec]
  ticks,       \* advances of the counters so far
  pc,          \* pc[t]: the statement thread t is at ("idle" outside Now())
  loc,         \* loc[s]: the automatic variables in frame s
  calls,       \* calls[t]: calls of Now() thread t has completed
  last,        \* last[t]: the value of t's latest completed call
  prev,        \* prev[t]: the value of t's call before that
  own,         \* own[t]: the values t's current call read itself
  trace,       \* trace[t]: what t's current call read, in order
  t_begin,     \* t_begin[t]: TSC at the first read of t's current call
  t_end,       \* t_end[t]: TSC at the latest read of t's current call
  guards       \* guards[t]: <<PMUSERENR, PMCNTENSET>> when t's current call began

vars == <<flags, branch, TSC, PMCCNTR, PMUSERENR, PMCNTENSET, clock, ticks,
          pc, loc, calls, last, prev, own, trace, t_begin, t_end, guards>>

hw == <<TSC, PMCCNTR, PMUSERENR, PMCNTENSET, clock, ticks>>

Uninit == <<>>

\* The automatic variables of every body, none of them initialised.
Fresh ==
  [ret |-> Uninit, low |-> Uninit, high |-> Uninit,
   tbl |-> Uninit, tbu0 |-> Uninit, tbu1 |-> Uninit,
   tick |-> Uninit, itc |-> Uninit,
   pmccntr |-> Uninit, pmuseren |-> Uninit, pmcntenset |-> Uninit,
   tv_sec |-> Uninit, tv_usec |-> Uninit]

\* Builds the runtime is explored for: every body, and the builds no guard matches.
Builds ==
  {{"OS_MACOSX", "__x86_64__"}, {"__i386__"}, {"__amd64__"}, {"__ppc__"},
   {"__sparc__"}, {"__ia64__"}, {"COMPILER_MSVC", "_M_IX86"}, {"COMPILER_MSVC"},
   {"ARMV3"}, {"ARMV3", "ARMV6"}, {"__mips__"},
   {}, {"ARMV6"}, {"_M_IX86"}, {"ARMV6", "_M_IX86"}}

\* Counter values at the start: just below a carry of the upper half, and just
\* below 2^63.
Starts ==
  {[tsc |-> U64(U32(0, 0, 0, 5), U32(255, 255, 255, 255)),
    pmc |-> U32(0, 0, 3, 232),
    sec |-> <<0, 241, 83, 101, 0, 0, 0, 0>>, usec |-> 999998],
   [tsc |-> U64(U32(127, 255, 255, 255), U32(255, 255, 255, 254)),
    pmc |-> U32(255, 255, 255, 240),
    sec |-> <<246, 90, 208, 123, 99, 8, 0, 0>>, usec |-> 775800]}

\* How far one advance moves TSC.
TickSteps == {One64}

UserenValues == {U32(0, 0, 0, 1), U32(0, 0, 0, 2)}
CntensetValues == {U32(127, 255, 255, 255), U32(128, 0, 0, 0)}

InitRun ==
  /\ branch = "unbuilt"
  /\ \E s \in Starts :
       /\ TSC = s.tsc
       /\ PMCCNTR = s.pmc
       /\ clock = [sec |-> s.sec, usec |-> s.usec]
  /\ PMUSERENR = U32(0, 0, 0, 1)
  /\ PMCNTENSET = U32(128, 0, 0, 0)
  /\ ticks = 0
  /\ pc = [t \in Threads |-> "idle"]
  /\ loc = [t \in Threads |-> Fresh]
  /\ calls = [t \in Threads |-> 0]
  /\ last = [t \in Threads |-> Zero64]
  /\ prev = [t \in Threads |-> Zero64]
  /\ own = [t \in Threads |-> Fresh]
  /\ trace = [t \in Threads |-> <<>>]
  /\ t_begin = [t \in Threads |-> Zero64]
  /\ t_end = [t \in Threads |-> Zero64]
  /\ guards = [t \in Threads |-> <<Zero32, Zero32>>]

Init == flags \in Builds /\ InitRun

InitBuild == flags \in SUBSET Flags /\ InitRun

\* ------------------------------------------------------------ actions
\* The preprocessor resolves the #if chain; #error leaves no program.
Compile ==
  /\ branch = "unbuilt"
  /\ branch' = Select(flags)
  /\ UNCHANGED <<flags, hw, pc, loc, calls, last, prev, own, trace, t_begin, t_end, guards>>

Built == branch \notin {"unbuilt", "error"}

\* The bodies that read the 64-bit counter; the ARM and MIPS bodies never do.
HasTSC(b) == b \notin {"arm", "mips"}

\* The counters advance; the microsecond clock carries into the seconds.
Tick ==
  /\ Built
  /\ ticks < MaxTicks
  /\ ticks' = ticks + 1
  /\ \E d \in TickSteps : TSC' = IF HasTSC(branch) THEN Add(TSC, d) ELSE TSC
  /\ PMCCNTR' = Add(PMCCNTR, ToBytes(1, 4))
  /\ clock' = IF clock.usec + 1 = UsecPerSec
              THEN [sec |-> Add(clock.sec, One64), usec |-> 0]
              ELSE [clock EXCEPT !.usec = @ + 1]
  /\ UNCHANGED <<flags, branch, PMUSERENR, PMCNTENSET,
                 pc, loc, calls, last, prev, own, trace, t_begin, t_end, guards>>

\* The kernel changes the performance-monitor permissions between calls (on the
\* builds whose body reads them).
SetGuards ==
  /\ branch = "arm" /\ "ARMV6" \in flags
  /\ \A t \in Threads : pc[t] = "idle"
  /\ \E u \in UserenValues, e \in CntensetValues :
       /\ <<u, e>> # <<PMUSERENR, PMCNTENSET>>
       /\ PMUSERENR' = u
       /\ PMCNTENSET' = e
  /\ UNCHANGED <<flags, branch, TSC, PMCCNTR, clock, ticks,
                 pc, loc, calls, last, prev, own, trace, t_begin, t_end, guards>>

\* Thread 1 is the caller under observation; the others call once beside it.
Quota(t) == IF t = 1 THEN MaxCalls ELSE 1

\* A thread enters Now(): its variables are declared, nothing is read yet.
Call(t) ==
  /\ Built
  /\ pc[t] = "idle"
  /\ calls[t] < Quota(t)
  /\ pc' = [pc EXCEPT ![t] = Entry(branch, flags)]
  /\ loc' = [loc EXCEPT ![Slot(t)] = Fresh]
  /\ own' = [own EXCEPT ![t] = Fresh]
  /\ trace' = [trace EXCEPT ![t] = <<>>]
  /\ guards' = [guards EXCEPT ![t] = <<PMUSERENR, PMCNTENSET>>]
  /\ UNCHANGED <<flags, branch, hw, calls, last, prev, t_begin, t_end>>

\* One read: the frame and the call's own record take the value, the trace the name.
Read(t, l, o, name) ==
  /\ loc' = [loc EXCEPT ![Slot(t)] = l]
  /\ own' = [own EXCEPT ![t] = o]
  /\ trace' = [trace EXCEPT ![t] = Append(@, name)]
  /\ t_begin' = [t_begin EXCEPT ![t] = IF trace[t] = <<>> THEN TSC ELSE @]
  /\ t_end' = [t_end EXCEPT ![t] = TSC]
  /\ UNCHANGED <<flags, branch, hw, guards>>

\* return v;
Return(t, v) ==
  /\ pc' = [pc EXCEPT ![t] = "idle"]
  /\ prev' = [prev EXCEPT ![t] = last[t]]
  /\ last' = [last EXCEPT ![t] = v]
  /\ calls' = [calls EXCEPT ![t] = @ + 1]

Goto(t, p) ==
  /\ pc' = [pc EXCEPT ![t] = p]
  /\ UNCHANGED <<calls, last, prev>>

\* return mach_absolute_time();
MachAbsoluteTime(t) ==
  /\ pc[t] = "mach_absolute_time"
  /\ LET l == [loc[Slot(t)] EXCEPT !.ret = TSC]
     IN /\ Read(t, l, [own[t] EXCEPT !.ret = TSC], "mach_absolute_time")
        /\ Return(t, l.ret)

\* __asm__ volatile ("rdtsc" : "=A" (ret));  return ret;
RdtscI386(t) ==
  /\ pc[t] = "rdtsc_A"
  /\ LET l == [loc[Slot(t)] EXCEPT !.ret = U64(Hi32(TSC), Lo32(TSC))]
     IN /\ Read(t, l, [own[t] EXCEPT !.ret = U64(Hi32(TSC), Lo32(TSC))], "rdtsc")
        /\ Return(t, l.ret)

\* __asm__ volatile ("rdtsc" : "=a" (low), "=d" (high));  return (high << 32) | low;
RdtscX64(t) ==
  /\ pc[t] = "rdtsc"
  /\ LET l == [loc[Slot(t)] EXCEPT !.low = ZeroExt(Lo32(TSC)), !.high = ZeroExt(Hi32(TSC))]
         o == [own[t] EXCEPT !.low = ZeroExt(Lo32(TSC)), !.high = ZeroExt(Hi32(TSC))]
     IN /\ Read(t, l, o, "rdtsc")
        /\ Return(t, NowX64(l.low, l.high))

\* asm("mftbu %0" : "=r" (tbu0));
Mftbu0(t) ==
  /\ pc[t] = "mftbu0"
  /\ Read(t, [loc[Slot(t)] EXCEPT !.tbu0 = ZeroExt(Hi32(TSC))],
          [own[t] EXCEPT !.tbu0 = ZeroExt(Hi32(TSC))], "mftbu")
  /\ Goto(t, "mftb")

\* asm("mftb  %0" : "=r" (tbl));
Mftb(t) ==
  /\ pc[t] = "mftb"
  /\ Read(t, [loc[Slot(t)] EXCEPT !.tbl = ZeroExt(Lo32(TSC))],
          [own[t] EXCEPT !.tbl = ZeroExt(Lo32(TSC))], "mftb")
  /\ Goto(t, "mftbu1")

\* asm("mftbu %0" : "=r" (tbu1));  mask tbl;  return (tbu1 << 32) | tbl;
Mftbu1(t) ==
  /\ pc[t] = "mftbu1"
  /\ LET l == [loc[Slot(t)] EXCEPT !.tbu1 = ZeroExt(Hi32(TSC))]
     IN /\ Read(t, l, [own[t] EXCEPT !.tbu1 = ZeroExt(Hi32(TSC))], "mftbu")
        /\ Return(t, NowPowerPC(l.tbu0, l.tbl, l.tbu1))

\* asm(".byte 0x83, 0x41, 0x00, 0x00");  asm("mov %%g1, %0" : "=r" (tick));  return tick;
RdTick(t) ==
  /\ pc[t] = "rd_tick"
  /\ LET l == [loc[Slot(t)] EXCEPT !.tick = TSC]
     IN /\ Read(t, l, [own[t] EXCEPT !.tick = TSC], "rd_tick")
        /\ Return(t, l.tick)

\* asm("mov %0 = ar.itc" : "=r" (itc));  return itc;
ArItc(t) ==
  /\ pc[t] = "ar_itc"
  /\ LET l == [loc[Slot(t)] EXCEPT !.itc = TSC]
     IN /\ Read(t, l, [own[t] EXCEPT !.itc = TSC], "ar_itc")
        /\ Return(t, l.itc)

\* _asm rdtsc   (the value is left in edx:eax, the return registers)
AsmRdtsc(t) ==
  /\ pc[t] = "asm_rdtsc"
  /\ LET l == [loc[Slot(t)] EXCEPT !.ret = U64(Hi32(TSC), Lo32(TSC))]
     IN /\ Read(t, l, [own[t] EXCEPT !.ret = U64(Hi32(TSC), Lo32(TSC))], "rdtsc")
        /\ Return(t, l.ret)

\* return __rdtsc();
IntrinRdtsc(t) ==
  /\ pc[t] = "__rdtsc"
  /\ LET l == [loc[Slot(t)] EXCEPT !.ret = TSC]
     IN /\ Read(t, l, [own[t] EXCEPT !.ret = TSC], "rdtsc")
        /\ Return(t, l.ret)

\* asm("mrc p15, 0, %0, c9, c14, 0" : "=r" (pmuseren));  if (pmuseren & 1)
ReadPmuseren(t) ==
  /\ pc[t] = "pmuseren"
  /\ LET l == [loc[Slot(t)] EXCEPT !.pmuseren = PMUSERENR]
     IN /\ Read(t, l, [own[t] EXCEPT !.pmuseren = PMUSERENR], "pmuseren")
        /\ Goto(t, ArmAfterPmuseren(l.pmuseren))

\* asm("mrc p15, 0, %0, c9, c12, 1" : "=r" (pmcntenset));  if (pmcntenset & 0x80000000ul)
ReadPmcntenset(t) ==
  /\ pc[t] = "pmcntenset"
  /\ LET l == [loc[Slot(t)] EXCEPT !.pmcntenset = PMCNTENSET]
     IN /\ Read(t, l, [own[t] EXCEPT !.pmcntenset = PMCNTENSET], "pmcntenset")
        /\ Goto(t, ArmAfterPmcntenset(l.pmcntenset))

\* asm("mrc p15, 0, %0, c9, c13, 0" : "=r" (pmccntr));  return pmccntr * 64;
ReadPmccntr(t) ==
  /\ pc[t] = "pmccntr"
  /\ LET l == [loc[Slot(t)] EXCEPT !.pmccntr = PMCCNTR]
     IN /\ Read(t, l, [own[t] EXCEPT !.pmccntr = PMCCNTR], "pmccntr")
        /\ Return(t, NowPmccntr(l.pmccntr))

\* gettimeofday(&tv, NULL);  return tv.tv_sec * 1000000 + tv.tv_usec;
Gettimeofday(t) ==
  /\ pc[t] = "gettimeofday"
  /\ LET l == [loc[Slot(t)] EXCEPT !.tv_sec = clock.sec,
                                   !.tv_usec = ToBytes(clock.usec, 8)]
         o == [own[t] EXCEPT !.tv_sec = clock.sec,
                             !.tv_usec = ToBytes(clock.usec, 8)]
     IN /\ Read(t, l, o, "gettimeofday")
        /\ Return(t, NowTimeval(l.tv_sec, l.tv_usec))

\* The statements of a call in progress.
Step(t) ==
  \/ MachAbsoluteTime(t)
  \/ RdtscI386(t)
  \/ RdtscX64(t)
  \/ Mftbu0(t)
  \/ Mftb(t)
  \/ Mftbu1(t)
  \/ RdTick(t)
  \/ ArItc(t)
  \/ AsmRdtsc(t)
  \/ IntrinRdtsc(t)
  \/ ReadPmuseren(t)
  \/ ReadPmcntenset(t)
  \/ ReadPmccntr(t)
  \/ Gettimeofday(t)

Next ==
  \/ Compile
  \/ Tick
  \/ SetGuards
  \/ \E t \in Threads : Call(t)
  \/ \E t \in Threads : Step(t)

Spec == Init /\ [][Next]_vars

\* The build alone, over every combination of the macros.
SpecBuild == InitBuild /\ [][Compile]_vars

\* ------------------------------------------------------------ properties
\* t's latest call has returned: last, own, trace, t_begin, t_end describe it.
Done(t) == pc[t] = "idle" /\ calls[t] > 0

Bit0(r) == r[1] % 2 = 1
Bit31(r) == r[4] >= 128

LastRead(t) == trace[t][Len(trace[t])]

\* The order of the guards, as the #if chain lists them.
BranchOrder ==
  <<"mach", "i386", "x86_64", "ppc", "sparc", "ia64", "msvc_asm", "msvc_intrin",
    "arm", "mips">>

\* The condition written on the #if / #elif line of a body.
Guard(b, f) ==
  CASE b = "mach" -> "OS_MACOSX" \in f
    [] b = "i386" -> "__i386__" \in f
    [] b = "x86_64" -> "__x86_64__" \in f \/ "__amd64__" \in f
    [] b = "ppc" -> "__powerpc__" \in f \/ "__ppc__" \in f
    [] b = "sparc" -> "__sparc__" \in f
    [] b = "ia64" -> "__ia64__" \in f
    [] b = "msvc_asm" -> "COMPILER_MSVC" \in f /\ "_M_IX86" \in f
    [] b = "msvc_intrin" -> "COMPILER_MSVC" \in f
    [] b = "arm" -> "ARMV3" \in f
    [] b = "mips" -> "__mips__" \in f

Matching(f) == {i \in 1..Len(BranchOrder) : Guard(BranchOrder[i], f)}

NoGuard(f) == Matching(f) = {}

FirstMatch(f) ==
  IF NoGuard(f) THEN "error"
  ELSE BranchOrder[CHOOSE i \in Matching(f) : \A j \in Matching(f) : i <= j]

\* The value a call returns, as a function of what the call read.
Result(b, f, l) ==
  CASE b \in {"mach", "i386", "msvc_asm", "msvc_intrin"} -> l.ret
    [] b = "x86_64" -> NowX64(l.low, l.high)
    [] b = "ppc" -> NowPowerPC(l.tbu0, l.tbl, l.tbu1)
    [] b = "sparc" -> l.tick
    [] b = "ia64" -> l.itc
    [] b = "arm" ->
         IF "ARMV6" \in f /\ UserAccess(l.pmuseren) /\ Counting(l.pmcntenset)
         THEN NowPmccntr(l.pmccntr)
         ELSE NowTimeval(l.tv_sec, l.tv_usec)
    [] b = "mips" -> NowTimeval(l.tv_sec, l.tv_usec)

\* The largest tv_sec whose microsecond count is still below 2^63, and the
\* microseconds left in that second.
SecLimit == <<246, 90, 208, 123, 99, 8, 0, 0>>
UsecLimit == <<127, 214, 11, 0, 0, 0, 0, 0>>

\* The counter reading behind t's latest result is below 2^63 units.
ReadingBelow2p63(t) ==
  IF LastRead(t) = "gettimeofday"
  THEN /\ LeU(own[t].tv_sec, SecLimit)
       /\ own[t].tv_sec = SecLimit => LeU(own[t].tv_usec, UsecLimit)
  ELSE IF LastRead(t) = "pmccntr" THEN TRUE
  ELSE ~IsNeg(t_end[t])

\* C1: on every body, two sequential calls of one thread return non-decreasing
\* values while the counters never decrease and stay below 2^63, also when the
\* ARM guard registers answer differently on the two calls.
C1_Monotonic ==
  \A t \in Threads :
    (Done(t) /\ calls[t] >= 2 /\ ~IsNeg(TSC)) => LeS(prev[t], last[t])

\* C1 (supporting): the same, for every body but the ARM one with the
\* performance monitor compiled in.
C1_MonotonicOneSource ==
  \A t \in Threads :
    (Done(t) /\ calls[t] >= 2 /\ ~IsNeg(TSC)
       /\ ~(branch = "arm" /\ "ARMV6" \in flags))
    => LeS(prev[t], last[t])

\* C2: for every combination of the flags the built body is the one body that is
\* first in the fixed order among those whose guard holds; OS_MACOSX wins over
\* every architecture flag.
C2_FirstMatchWins ==
  branch # "unbuilt" =>
    /\ branch = FirstMatch(flags)
    /\ "OS_MACOSX" \in flags => branch = "mach"

C2_Witness ==
  /\ branch = "mach"
  /\ {"OS_MACOSX", "__x86_64__", "__ppc__", "ARMV3", "__mips__"} \subseteq flags

\* C3: a flag set that matches no guard builds nothing: no call of Now() ever
\* starts or returns.
C3_NoGuardNoProgram ==
  NoGuard(flags) =>
    /\ branch \in {"unbuilt", "error"}
    /\ \A t \in Threads : pc[t] = "idle" /\ calls[t] = 0

C3_Witness == flags = {"ARMV6"} /\ branch = "error"

\* C4: the PowerPC body returns tbu1 in the upper half and, in the lower half,
\* tbl when tbu0 = tbu1 and 0 otherwise; tbu0 is in neither half.
C4_PowerPCSplitRead ==
  /\ \A t \in Threads :
       (Done(t) /\ branch = "ppc") =>
         last[t] = U64(Lo32(own[t].tbu1),
                       IF own[t].tbu0 = own[t].tbu1 THEN Lo32(own[t].tbl) ELSE Zero32)
  /\ (branch = "ppc" /\ ticks = 0) =>
       /\ NowPowerPC(<<5, 0, 0, 0, 0, 0, 0, 0>>, <<255, 255, 255, 255, 0, 0, 0, 0>>,
                     <<6, 0, 0, 0, 0, 0, 0, 0>>) = <<0, 0, 0, 0, 6, 0, 0, 0>>
       /\ NowPowerPC(<<5, 0, 0, 0, 0, 0, 0, 0>>, <<100, 0, 0, 0, 0, 0, 0, 0>>,
                     <<5, 0, 0, 0, 0, 0, 0, 0>>) = <<100, 0, 0, 0, 5, 0, 0, 0>>

C4_Witness ==
  \E t \in Threads :
    /\ Done(t) /\ branch = "ppc"
    /\ own[t].tbu0 = <<5, 0, 0, 0, 0, 0, 0, 0>>
    /\ own[t].tbl = <<255, 255, 255, 255, 0, 0, 0, 0>>
    /\ own[t].tbu1 = <<6, 0, 0, 0, 0, 0, 0, 0>>
    /\ last[t] = <<0, 0, 0, 0, 6, 0, 0, 0>>

\* C5: the ARM body returns pmccntr * 64 exactly when ARMV6 is defined, bit 0 of
\* the permission register and bit 31 of the enable register are set; otherwise
\* it returns tv_sec * 1000000 + tv_usec.
C5_ArmResult ==
  \A t \in Threads :
    (Done(t) /\ branch = "arm") =>
      IF "ARMV6" \in flags /\ Bit0(guards[t][1]) /\ Bit31(guards[t][2])
      THEN /\ LastRead(t) = "pmccntr"
           /\ last[t] = Mul(own[t].pmccntr \o Zero32, 64)
      ELSE /\ LastRead(t) = "gettimeofday"
           /\ last[t] = Add(Mul(own[t].tv_sec, 1000000), own[t].tv_usec)

C5_Witness ==
  /\ branch = "arm" /\ "ARMV6" \in flags
  /\ Done(1) /\ LastRead(1) = "pmccntr" /\ last[1] = Mul(own[1].pmccntr \o Zero32, 64)
  /\ Done(2) /\ LastRead(2) = "gettimeofday"
  /\ Bit0(guards[2][1]) /\ ~Bit31(guards[2][2])

\* C6: on the ARM performance-monitor path the permission register is read
\* first, the enable register only after the permission bit was found set, the
\* counter only after both were; with the permission bit clear neither is read.
C6_ArmGuardedOrder ==
  \A t \in Threads :
    (branch = "arm" /\ "ARMV6" \in flags /\ trace[t] # <<>>) =>
      /\ trace[t][1] = "pmuseren"
      /\ \A i \in 1..Len(trace[t]) :
           /\ trace[t][i] = "pmuseren" => i = 1
           /\ trace[t][i] = "pmcntenset" => i = 2 /\ Bit0(own[t].pmuseren)
           /\ trace[t][i] = "pmccntr" =>
                /\ i = 3 /\ trace[t][2] = "pmcntenset"
                /\ Bit0(own[t].pmuseren) /\ Bit31(own[t].pmcntenset)
      /\ ~Bit0(own[t].pmuseren) =>
           /\ \A i \in 1..Len(trace[t]) : trace[t][i] \notin {"pmcntenset", "pmccntr"}
           /\ Done(t) => trace[t] = <<"pmuseren", "gettimeofday">>

C6_Witness ==
  \E t \in Threads :
    /\ branch = "arm" /\ "ARMV6" \in flags /\ Done(t)
    /\ own[t].pmuseren = U32(0, 0, 0, 2)
    /\ trace[t] = <<"pmuseren", "gettimeofday">>
    /\ last[t] = Add(Mul(own[t].tv_sec, 1000000), own[t].tv_usec)

\* C7: a call whose counter reading is below 2^63 returns a value >= 0.
C7_NonNegative ==
  \A t \in Threads : (Done(t) /\ ReadingBelow2p63(t)) => ~IsNeg(last[t])

C7_Witness ==
  \E t \in Threads :
    /\ Done(t) /\ branch = "x86_64"
    /\ t_end[t] = <<255, 255, 255, 255, 255, 255, 255, 127>>
    /\ last[t] = <<255, 255, 255, 255, 255, 255, 255, 127>>

\* The statements a call can be at: the guards of the disjuncts of Step.
StepLabels ==
  {"mach_absolute_time", "rdtsc_A", "rdtsc", "mftbu0", "mftb", "mftbu1", "rd_tick",
   "ar_itc", "asm_rdtsc", "__rdtsc", "pmuseren", "pmcntenset", "pmccntr",
   "gettimeofday"}

\* C8: a call makes at most three reads, and a call that has started always has
\* a next statement to run until it returns (each statement is one more read, so
\* the call returns after at most three), whichever way the ARM checks and the
\* PowerPC comparison turn out.
C8_TerminatesNoRetry ==
  \A t \in Threads :
    /\ Len(trace[t]) <= 3
    /\ pc[t] # "idle" => Len(trace[t]) < 3 /\ pc[t] \in StepLabels

C8_Witness ==
  \E t \in Threads :
    /\ Done(t) /\ branch = "arm"
    /\ trace[t] = <<"pmuseren", "pmcntenset", "gettimeofday">>

\* C9: under every interleaving, a call's variables hold only what the call
\* itself read, and its result is the function of those reads.
C9_ThreadSafe ==
  \A t \in Threads :
    /\ pc[t] # "idle" => loc[t] = own[t]
    /\ Done(t) => loc[t] = own[t] /\ last[t] = Result(branch, flags, own[t])

C9_Witness ==
  /\ branch = "ppc" /\ Done(1) /\ Done(2)
  /\ last[1] # last[2]
  /\ ~LeU(t_end[1], t_begin[2])
  /\ ~LeU(t_end[2], t_begin[1])

\* C10: the PowerPC result lies between the time base at the first upper-half
\* read and the time base at the second upper-half read.
C10_PowerPCWithinInterval ==
  \A t \in Threads :
    (Done(t) /\ branch = "ppc" /\ ~IsNeg(t_end[t])) =>
      /\ LeU(t_begin[t], last[t])
      /\ LeU(last[t], t_end[t])

C10_Witness ==
  /\ branch = "ppc" /\ Done(1) /\ Done(2)
  /\ own[1].tbu0 # own[1].tbu1 /\ own[1].tbl = <<255, 255, 255, 255, 0, 0, 0, 0>>
  /\ own[2].tbu0 # own[2].tbu1 /\ own[2].tbl = <<0, 0, 0, 0, 0, 0, 0, 0>>
  /\ Hi32(t_begin[1]) # Hi32(t_end[1])

====
